---- MODULE Spec2Model ----
(***************************************************************************)
(* Orders service: the request -> validation -> persistence pipeline.      *)
(*                                                                         *)
(* The orders table is one SQLite table shared by every request.  A        *)
(* request runs as an async handler; the points where it awaits the pool   *)
(* are the only places where another request can run in between, so each   *)
(* action below is one handler segment that ends with the SQL statement    *)
(* it awaits (a statement is atomic in the storage engine).                *)
(***************************************************************************)
EXTENDS Integers, Sequences, FiniteSets, TLC

VARIABLES
    orders,    \* the rows of table "orders"
    pc,        \* per task: the await point the handler is suspended at
    req,       \* per task: the request being served (<<>> when idle)
    snap,      \* per task: the Order held in a local across an await
    last,      \* history: the request completed most recently, with its response
    input,     \* validator harness: the value handed to the validator
    result,    \* validator harness: what the validator returned
    status_result,  \* validator harness: what validate_status returned
    engine,    \* the storage engine: "up", or "down" when its statements fail
    issued     \* per task: the statements the request in flight has issued

vars == <<orders, pc, req, snap, last, input, result, status_result, engine, issued>>

-----------------------------------------------------------------------------
(* Bounds of the model *)

MaxId == 2
NumTasks == 2

Tasks == 1..NumTasks
PathIds == 0..MaxId          \* Path<u32>: 0 is a legal path id

(* Program constants *)
MaxItemLen == 100
MaxQuantity == 1000

-----------------------------------------------------------------------------
(* Strings.  A String is a sequence of characters; len() counts UTF-8      *)
(* bytes, trim() strips white space at both ends.                          *)

Space == " "
EAcute == "U+00E9"           \* a character whose UTF-8 encoding is two bytes

Utf8Width(c) == IF c = EAcute THEN 2 ELSE 1

IsWhitespace(c) == c = Space

RECURSIVE ByteLen(_)
ByteLen(s) == IF s = <<>> THEN 0 ELSE Utf8Width(Head(s)) + ByteLen(Tail(s))

RECURSIVE TrimStart(_)
TrimStart(s) ==
    IF s = <<>> THEN s
    ELSE IF IsWhitespace(Head(s)) THEN TrimStart(Tail(s)) ELSE s

RECURSIVE TrimEnd(_)
TrimEnd(s) ==
    IF s = <<>> THEN s
    ELSE IF IsWhitespace(s[Len(s)]) THEN TrimEnd(SubSeq(s, 1, Len(s) - 1)) ELSE s

Trim(s) == TrimEnd(TrimStart(s))

Repeat(c, n) == [i \in 1..n |-> c]

-----------------------------------------------------------------------------
(* Order and the error taxonomy *)

Order(id, item, status, quantity) ==
    [id |-> id, item |-> item, status |-> status, quantity |-> quantity]

None == <<>>
Some(x) == <<x>>

Ok(v) == [ok |-> TRUE, value |-> v]
Err(e) == [ok |-> FALSE, value |-> e]

ValidationError(error, field) ==
    [kind |-> "Validation", error |-> error, field |-> field]

ServerError(error, message) ==
    [kind |-> "Server", error |-> error, message |-> message]

NotFound(message) == [kind |-> "NotFound", message |-> message]

\* IntoResponse with NotFound sent as a bad request.
IntoResponseNotFoundAs400(e) ==
    CASE e.kind = "Validation" ->
            [status |-> 400, body |-> [error |-> e.error, field |-> e.field]]
      [] e.kind = "Server" ->
            [status |-> 500, body |-> [error |-> e.error, message |-> e.message]]
      [] e.kind = "NotFound" ->
            [status |-> 400, body |-> [error |-> e.message]]

\* impl IntoResponse for ApiError / ValidationError / ServerError
IntoResponse(e) ==
    CASE e.kind = "Validation" ->
            [status |-> 400, body |-> [error |-> e.error, field |-> e.field]]
      [] e.kind = "Server" ->
            [status |-> 500, body |-> [error |-> e.error, message |-> e.message]]
      [] e.kind = "NotFound" ->
            [status |-> 404, body |-> [error |-> e.message]]

\* Respond with success sent as 201 Created.
RespondCreated(r) ==
    IF r.ok THEN [status |-> 201, body |-> r.value] ELSE IntoResponse(r.value)

\* Result<Json<T>, ApiError> as the HTTP response axum sends
Respond(r) ==
    IF r.ok THEN [status |-> 200, body |-> r.value] ELSE IntoResponse(r.value)

-----------------------------------------------------------------------------
(* Validator *)

valid_statuses == <<"pending", "processing", "shipped", "delivered", "cancelled">>

Contains(seq, x) == \E i \in 1..Len(seq) : seq[i] = x

RECURSIVE Join(_, _)
Join(seq, sep) ==
    IF seq = <<>> THEN ""
    ELSE IF Len(seq) = 1 THEN seq[1]
    ELSE seq[1] \o sep \o Join(Tail(seq), sep)

StatusMessage == "Status must be one of: " \o Join(valid_statuses, ", ")

validate_order(order) ==
    IF order.id = 0
    THEN Err(ValidationError("Order ID must be greater than 0", Some("id")))
    ELSE IF Trim(order.item) = <<>>
    THEN Err(ValidationError("Item name cannot be empty", Some("item")))
    ELSE IF ByteLen(order.item) > MaxItemLen
    THEN Err(ValidationError("Item name cannot exceed 100 characters", Some("item")))
    ELSE IF ~Contains(valid_statuses, order.status)
    THEN Err(ValidationError(StatusMessage, Some("status")))
    ELSE IF order.quantity = 0
    THEN Err(ValidationError("Quantity must be greater than 0", Some("quantity")))
    ELSE IF order.quantity > MaxQuantity
    THEN Err(ValidationError("Quantity cannot exceed 1000", Some("quantity")))
    ELSE Ok(<<>>)

validate_status(status) ==
    IF ~Contains(valid_statuses, status)
    THEN Err(ValidationError(StatusMessage, Some("status")))
    ELSE Ok(<<>>)

-----------------------------------------------------------------------------
(* The storage engine: table "orders" with id INTEGER PRIMARY KEY.  Each   *)
(* operator is one SQL statement; a write returns the new table together   *)
(* with rows_affected, or the constraint error the engine raises.          *)

Matching(tbl, id) == {r \in tbl : r.id = id}

\* SELECT id, item, status, quantity FROM orders WHERE id = ?  (fetch_optional)
SelectById(tbl, id) ==
    IF Matching(tbl, id) = {} THEN None
    ELSE Some(CHOOSE r \in Matching(tbl, id) : TRUE)

\* SelectAll that fetches one row only.
SelectAllFirstRow(tbl) ==
    IF tbl = {} THEN <<>>
    ELSE <<CHOOSE x \in tbl : \A y \in tbl : x.id <= y.id>>

\* SELECT id, item, status, quantity FROM orders  (fetch_all, rowid order)
RECURSIVE SelectAll(_)
SelectAll(tbl) ==
    IF tbl = {} THEN <<>>
    ELSE LET r == CHOOSE x \in tbl : \A y \in tbl : x.id <= y.id
         IN  <<r>> \o SelectAll(tbl \ {r})

\* Insert against a table declared without PRIMARY KEY.
InsertNoPrimaryKey(tbl, row) ==
    [failed |-> FALSE, table |-> tbl \cup {row}, rows_affected |-> 1]

\* Insert with the id and quantity binds in each other's place.
InsertSwappedBinds(tbl, row) ==
    IF Matching(tbl, row.quantity) # {}
    THEN [failed |-> TRUE, table |-> tbl, rows_affected |-> 0]
    ELSE [failed |-> FALSE,
          table |-> tbl \cup {[row EXCEPT !.id = row.quantity, !.quantity = row.id]},
          rows_affected |-> 1]

\* Insert written as INSERT OR REPLACE: a row of the same id is overwritten.
InsertOrReplace(tbl, row) ==
    [failed |-> FALSE, table |-> (tbl \ Matching(tbl, row.id)) \cup {row},
     rows_affected |-> 1]

\* INSERT INTO orders (id, item, status, quantity) VALUES (?, ?, ?, ?)
Insert(tbl, row) ==
    IF Matching(tbl, row.id) # {}
    THEN [failed |-> TRUE, table |-> tbl, rows_affected |-> 0]
    ELSE [failed |-> FALSE, table |-> tbl \cup {row}, rows_affected |-> 1]

\* Update written as an upsert: a missing row is inserted.
UpdateUpsert(tbl, id, item, status, quantity) ==
    [failed |-> FALSE,
     table |-> {r \in tbl : r.id # id} \cup {Order(id, item, status, quantity)},
     rows_affected |-> 1]

\* Update that sets item and quantity and leaves the status column.
UpdateKeepsStatus(tbl, id, item, status, quantity) ==
    [failed |-> FALSE,
     table |-> {IF r.id = id
                THEN [r EXCEPT !.item = item, !.quantity = quantity]
                ELSE r : r \in tbl},
     rows_affected |-> Cardinality(Matching(tbl, id))]

\* Update without its WHERE clause.
UpdateNoWhere(tbl, id, item, status, quantity) ==
    [failed |-> FALSE,
     table |-> {[r EXCEPT !.item = item, !.status = status,
                          !.quantity = quantity] : r \in tbl},
     rows_affected |-> Cardinality(tbl)]

\* UPDATE orders SET item = ?, status = ?, quantity = ? WHERE id = ?
Update(tbl, id, item, status, quantity) ==
    [failed |-> FALSE,
     table |-> {IF r.id = id
                THEN [r EXCEPT !.item = item, !.status = status,
                               !.quantity = quantity]
                ELSE r : r \in tbl},
     rows_affected |-> Cardinality(Matching(tbl, id))]

\* UpdateStatus without its WHERE clause.
UpdateStatusNoWhere(tbl, id, status) ==
    [failed |-> FALSE,
     table |-> {[r EXCEPT !.status = status] : r \in tbl},
     rows_affected |-> Cardinality(tbl)]

\* UpdateStatus that counts only the rows whose status it changed.
UpdateStatusChangedRows(tbl, id, status) ==
    [failed |-> FALSE,
     table |-> {IF r.id = id THEN [r EXCEPT !.status = status] ELSE r : r \in tbl},
     rows_affected |-> Cardinality({r \in Matching(tbl, id) : r.status # status})]

\* UPDATE orders SET status = ? WHERE id = ?
UpdateStatus(tbl, id, status) ==
    [failed |-> FALSE,
     table |-> {IF r.id = id THEN [r EXCEPT !.status = status] ELSE r : r \in tbl},
     rows_affected |-> Cardinality(Matching(tbl, id))]

\* Delete without its WHERE clause.
DeleteNoWhere(tbl, id) ==
    [failed |-> FALSE, table |-> {}, rows_affected |-> Cardinality(tbl)]

\* DELETE FROM orders WHERE id = ?
Delete(tbl, id) ==
    [failed |-> FALSE,
     table |-> tbl \ Matching(tbl, id),
     rows_affected |-> Cardinality(Matching(tbl, id))]

-----------------------------------------------------------------------------
(* Requests, as the router hands them to the handlers *)

Request(op, path, body) == [op |-> op, path |-> path, body |-> body]

ListReq == Request("get_orders", None, None)
AddReq(order) == Request("add_order", None, Some(order))
GetReq(id) == Request("get_order_by_id", Some(id), None)
PutReq(id, order) == Request("update_order_by_id", Some(id), Some(order))
StatusUpdate(status) == [status |-> status]
PatchReq(id, status) ==
    Request("update_order_status", Some(id), Some(StatusUpdate(status)))
DeleteReq(id) == Request("delete_order_by_id", Some(id), None)

OrderNotFound == NotFound("Order not found")

AlreadyExists(id) ==
    ValidationError("Order with ID " \o ToString(id) \o " already exists", Some("id"))

\* sqlx::Error mapped by map_err: every statement failure becomes this.
DatabaseError(message) == ServerError("Database error", message)

\* The handler returns: the task is free again and the response is sent.
\* n is the number of statements this last segment issued.
Return(t, request, r, n) ==
    /\ pc' = [pc EXCEPT ![t] = "idle"]
    /\ req' = [req EXCEPT ![t] = None]
    /\ snap' = [snap EXCEPT ![t] = None]
    /\ issued' = [issued EXCEPT ![t] = 0]
    /\ last' = Some([req |-> request, result |-> r, resp |-> Respond(r),
                     statements |-> issued[t] + n])

\* The handler has issued a statement and suspends at its next one.
Await(t, request, at, held) ==
    /\ pc' = [pc EXCEPT ![t] = at]
    /\ req' = [req EXCEPT ![t] = Some(request)]
    /\ snap' = [snap EXCEPT ![t] = held]
    /\ issued' = [issued EXCEPT ![t] = @ + 1]
    /\ UNCHANGED last

-----------------------------------------------------------------------------
(* Handlers *)

\* GET /orders
get_orders(t) ==
    /\ pc[t] = "idle"
    /\ IF engine = "down"
       THEN Return(t, ListReq, Err(DatabaseError("Failed to retrieve orders")), 1)
       ELSE Return(t, ListReq, Ok(SelectAll(orders)), 1)
    /\ UNCHANGED <<orders, engine, input, result, status_result>>

\* add_order whose create_order goes to the INSERT without the existence check.
add_order_NoExistenceCheck(t, new_order) ==
    /\ pc[t] = "idle"
    /\ LET v == validate_order(new_order) IN
       IF ~v.ok THEN Return(t, AddReq(new_order), Err(v.value), 0)
       ELSE Await(t, AddReq(new_order), "create_order_insert", None)
    /\ UNCHANGED <<orders, engine, input, result, status_result>>

\* add_order without its call of validate_order.
add_order_NoValidation(t, new_order) ==
    /\ pc[t] = "idle"
    /\ IF engine = "down"
       THEN Return(t, AddReq(new_order),
                   Err(DatabaseError("Failed to retrieve order")), 1)
       ELSE IF SelectById(orders, new_order.id) # None
       THEN Return(t, AddReq(new_order), Err(AlreadyExists(new_order.id)), 1)
       ELSE Await(t, AddReq(new_order), "create_order_insert", None)
    /\ UNCHANGED <<orders, engine, input, result, status_result>>

\* POST /orders: validate_order, then create_order up to its existence check
add_order(t, new_order) ==
    /\ pc[t] = "idle"
    /\ LET v == validate_order(new_order) IN
       IF ~v.ok THEN Return(t, AddReq(new_order), Err(v.value), 0)
       ELSE IF engine = "down"
       THEN Return(t, AddReq(new_order),
                   Err(DatabaseError("Failed to retrieve order")), 1)
       ELSE IF SelectById(orders, new_order.id) # None
       THEN Return(t, AddReq(new_order), Err(AlreadyExists(new_order.id)), 1)
       ELSE Await(t, AddReq(new_order), "create_order_insert", None)
    /\ UNCHANGED <<orders, engine, input, result, status_result>>

\* create_order_insert that tries the INSERT again when it failed.
create_order_insert_Retry(t) ==
    /\ pc[t] = "create_order_insert"
    /\ LET request == req[t][1]
           order == request.body[1]
           ins == IF engine = "down"
                  THEN [failed |-> TRUE, table |-> orders, rows_affected |-> 0]
                  ELSE Insert(orders, order)
       IN  /\ orders' = ins.table
           /\ IF ins.failed
              THEN Await(t, request, "create_order_insert", None)
              ELSE Return(t, request, Ok(order), 1)
    /\ UNCHANGED <<engine, input, result, status_result>>

\* create_order: the INSERT and the return of order.clone()
create_order_insert(t) ==
    /\ pc[t] = "create_order_insert"
    /\ LET request == req[t][1]
           order == request.body[1]
           ins == IF engine = "down"
                  THEN [failed |-> TRUE, table |-> orders, rows_affected |-> 0]
                  ELSE Insert(orders, order)
       IN  /\ orders' = ins.table
           /\ IF ins.failed
              THEN Return(t, request, Err(DatabaseError("Failed to create order")), 1)
              ELSE Return(t, request, Ok(order), 1)
    /\ UNCHANGED <<engine, input, result, status_result>>

\* GET /orders/{id}
get_order_by_id(t, id) ==
    /\ pc[t] = "idle"
    /\ LET found == SelectById(orders, id) IN
       IF engine = "down"
       THEN Return(t, GetReq(id), Err(DatabaseError("Failed to retrieve order")), 1)
       ELSE IF found = None THEN Return(t, GetReq(id), Err(OrderNotFound), 1)
       ELSE Return(t, GetReq(id), Ok(found[1]), 1)
    /\ UNCHANGED <<orders, engine, input, result, status_result>>

\* update_order_by_id that addresses the row by the id of the body.
update_order_by_id_BodyId(t, id, updated_order) ==
    /\ pc[t] = "idle"
    /\ LET v == validate_order(updated_order)
           upd == Update(orders, updated_order.id, updated_order.item,
                         updated_order.status, updated_order.quantity)
       IN  IF ~v.ok
           THEN /\ Return(t, PutReq(id, updated_order), Err(v.value), 0)
                /\ UNCHANGED orders
           ELSE IF engine = "down"
           THEN /\ Return(t, PutReq(id, updated_order),
                          Err(DatabaseError("Failed to update order")), 1)
                /\ UNCHANGED orders
           ELSE /\ orders' = upd.table
                /\ IF upd.rows_affected = 0
                   THEN Return(t, PutReq(id, updated_order), Err(OrderNotFound), 1)
                   ELSE Return(t, PutReq(id, updated_order), Ok(updated_order), 1)
    /\ UNCHANGED <<engine, input, result, status_result>>

\* update_order_by_id that validates the body after it has written it.
update_order_by_id_ValidateAfter(t, id, updated_order) ==
    /\ pc[t] = "idle"
    /\ LET v == validate_order(updated_order)
           upd == Update(orders, id, updated_order.item, updated_order.status,
                         updated_order.quantity)
       IN  IF engine = "down"
           THEN /\ Return(t, PutReq(id, updated_order),
                          Err(DatabaseError("Failed to update order")), 1)
                /\ UNCHANGED orders
           ELSE /\ orders' = upd.table
                /\ IF upd.rows_affected = 0
                   THEN Return(t, PutReq(id, updated_order), Err(OrderNotFound), 1)
                   ELSE IF ~v.ok
                   THEN Return(t, PutReq(id, updated_order), Err(v.value), 1)
                   ELSE Return(t, PutReq(id, updated_order),
                               Ok([updated_order EXCEPT !.id = id]), 1)
    /\ UNCHANGED <<engine, input, result, status_result>>

\* update_order_by_id that refuses a body whose id is not the path id.
update_order_by_id_IdMustMatch(t, id, updated_order) ==
    /\ pc[t] = "idle"
    /\ LET v == validate_order(updated_order)
           upd == Update(orders, id, updated_order.item, updated_order.status,
                         updated_order.quantity)
       IN  IF ~v.ok
           THEN /\ Return(t, PutReq(id, updated_order), Err(v.value), 0)
                /\ UNCHANGED orders
           ELSE IF updated_order.id # id
           THEN /\ Return(t, PutReq(id, updated_order),
                          Err(ValidationError("Order ID does not match the path",
                                              Some("id"))), 0)
                /\ UNCHANGED orders
           ELSE IF engine = "down"
           THEN /\ Return(t, PutReq(id, updated_order),
                          Err(DatabaseError("Failed to update order")), 1)
                /\ UNCHANGED orders
           ELSE /\ orders' = upd.table
                /\ IF upd.rows_affected = 0
                   THEN Return(t, PutReq(id, updated_order), Err(OrderNotFound), 1)
                   ELSE Return(t, PutReq(id, updated_order),
                               Ok([updated_order EXCEPT !.id = id]), 1)
    /\ UNCHANGED <<engine, input, result, status_result>>

\* PUT /orders/{id}: validate_order, then update_order
update_order_by_id(t, id, updated_order) ==
    /\ pc[t] = "idle"
    /\ LET v == validate_order(updated_order)
           upd == Update(orders, id, updated_order.item, updated_order.status,
                         updated_order.quantity)
       IN  IF ~v.ok
           THEN /\ Return(t, PutReq(id, updated_order), Err(v.value), 0)
                /\ UNCHANGED orders
           ELSE IF engine = "down"
           THEN /\ Return(t, PutReq(id, updated_order),
                          Err(DatabaseError("Failed to update order")), 1)
                /\ UNCHANGED orders
           ELSE /\ orders' = upd.table
                /\ IF upd.rows_affected = 0
                   THEN Return(t, PutReq(id, updated_order), Err(OrderNotFound), 1)
                   ELSE Return(t, PutReq(id, updated_order),
                               Ok([updated_order EXCEPT !.id = id]), 1)
    /\ UNCHANGED <<engine, input, result, status_result>>

\* update_order_status that looks for the order before it validates.
update_order_status_ExistenceFirst(t, id, status) ==
    /\ pc[t] = "idle"
    /\ LET v == validate_status(status)
           upd == UpdateStatus(orders, id, status)
       IN  IF engine = "down"
           THEN /\ Return(t, PatchReq(id, status),
                          Err(DatabaseError("Failed to retrieve order")), 1)
                /\ UNCHANGED orders
           ELSE IF SelectById(orders, id) = None
           THEN /\ Return(t, PatchReq(id, status), Err(OrderNotFound), 1)
                /\ UNCHANGED orders
           ELSE IF ~v.ok
           THEN /\ Return(t, PatchReq(id, status), Err(v.value), 1)
                /\ UNCHANGED orders
           ELSE /\ orders' = upd.table
                /\ Await(t, PatchReq(id, status), "update_order_status_get", None)
    /\ UNCHANGED <<engine, input, result, status_result>>

\* PATCH /orders/{id}/status: validate_status, then update_order_status up to
\* its UPDATE
update_order_status(t, id, status) ==
    /\ pc[t] = "idle"
    /\ LET v == validate_status(status)
           upd == UpdateStatus(orders, id, status)
       IN  IF ~v.ok
           THEN /\ Return(t, PatchReq(id, status), Err(v.value), 0)
                /\ UNCHANGED orders
           ELSE IF engine = "down"
           THEN /\ Return(t, PatchReq(id, status),
                          Err(DatabaseError("Failed to update order status")), 1)
                /\ UNCHANGED orders
           ELSE /\ orders' = upd.table
                /\ IF upd.rows_affected = 0
                   THEN Return(t, PatchReq(id, status), Err(OrderNotFound), 1)
                   ELSE Await(t, PatchReq(id, status), "update_order_status_get", None)
    /\ UNCHANGED <<engine, input, result, status_result>>

\* update_order_status: the re-read of the order it returns
update_order_status_get(t) ==
    /\ pc[t] = "update_order_status_get"
    /\ LET request == req[t][1]
           found == SelectById(orders, request.path[1])
       IN  IF engine = "down"
           THEN Return(t, request, Err(DatabaseError("Failed to retrieve order")), 1)
           ELSE IF found = None THEN Return(t, request, Err(OrderNotFound), 1)
           ELSE Return(t, request, Ok(found[1]), 1)
    /\ UNCHANGED <<orders, engine, input, result, status_result>>

\* DELETE /orders/{id}: delete_order up to its read of the order
delete_order_by_id(t, id) ==
    /\ pc[t] = "idle"
    /\ LET found == SelectById(orders, id) IN
       IF engine = "down"
       THEN Return(t, DeleteReq(id), Err(DatabaseError("Failed to retrieve order")), 1)
       ELSE IF found = None THEN Return(t, DeleteReq(id), Err(OrderNotFound), 1)
       ELSE Await(t, DeleteReq(id), "delete_order_delete", found)
    /\ UNCHANGED <<orders, engine, input, result, status_result>>

\* delete_order_delete that does not look at rows_affected.
delete_order_delete_IgnoreRows(t) ==
    /\ pc[t] = "delete_order_delete"
    /\ LET request == req[t][1]
           del == Delete(orders, request.path[1])
       IN  IF engine = "down"
           THEN /\ Return(t, request, Err(DatabaseError("Failed to delete order")), 1)
                /\ UNCHANGED orders
           ELSE /\ orders' = del.table
                /\ Return(t, request, Ok(snap[t][1]), 1)
    /\ UNCHANGED <<engine, input, result, status_result>>

\* delete_order_delete that reports the order deleted and keeps its row.
delete_order_delete_KeepRow(t) ==
    /\ pc[t] = "delete_order_delete"
    /\ LET request == req[t][1] IN
       IF engine = "down"
       THEN Return(t, request, Err(DatabaseError("Failed to delete order")), 1)
       ELSE IF Delete(orders, request.path[1]).rows_affected = 0
       THEN Return(t, request, Err(OrderNotFound), 1)
       ELSE Return(t, request, Ok(snap[t][1]), 1)
    /\ UNCHANGED <<orders, engine, input, result, status_result>>

\* delete_order: the DELETE and the return of the order read before
delete_order_delete(t) ==
    /\ pc[t] = "delete_order_delete"
    /\ LET request == req[t][1]
           del == Delete(orders, request.path[1])
       IN  IF engine = "down"
           THEN /\ Return(t, request, Err(DatabaseError("Failed to delete order")), 1)
                /\ UNCHANGED orders
           ELSE /\ orders' = del.table
                /\ IF del.rows_affected = 0
                   THEN Return(t, request, Err(OrderNotFound), 1)
                   ELSE Return(t, request, Ok(snap[t][1]), 1)
    /\ UNCHANGED <<engine, input, result, status_result>>

\* A URI path is the sequence of its segments: /orders/1 is <<"orders", "1">>.
\* Route matching that takes /orders/:id/status for any third segment.
MatchRouteAnyThird(path) ==
    IF path # <<>> /\ Head(path) \in {"docs", "api-docs"} THEN Some("swagger")
    ELSE IF path = <<"orders">> THEN Some("/orders")
    ELSE IF Len(path) = 2 /\ path[1] = "orders" THEN Some("/orders/:id")
    ELSE IF Len(path) = 3 /\ path[1] = "orders" THEN Some("/orders/:id/status")
    ELSE None

\* create_router: the route a path matches, if any
MatchRoute(path) ==
    IF path # <<>> /\ Head(path) \in {"docs", "api-docs"} THEN Some("swagger")
    ELSE IF path = <<"orders">> THEN Some("/orders")
    ELSE IF Len(path) = 2 /\ path[1] = "orders" THEN Some("/orders/:id")
    ELSE IF Len(path) = 3 /\ path[1] = "orders" /\ path[3] = "status"
         THEN Some("/orders/:id/status")
    ELSE None

FallbackReq(path) ==
    [op |-> "path_not_found", path |-> None, body |-> None, uri |-> path]

PathNotFound ==
    [status |-> 404,
     body |-> [error |-> "Path not found",
               message |-> "The requested endpoint does not exist"]]

\* .fallback(path_not_found): the answer to a path no route matches
path_not_found(t, path) ==
    /\ pc[t] = "idle"
    /\ MatchRoute(path) = None
    /\ last' = Some([req |-> FallbackReq(path), result |-> None,
                     resp |-> PathNotFound, statements |-> issued[t]])
    /\ UNCHANGED <<orders, pc, req, snap, input, result, status_result, engine, issued>>

\* The storage engine starts or stops failing its statements (a lost
\* connection, a locked or corrupt database).
storage_fault ==
    /\ engine' = IF engine = "up" THEN "down" ELSE "up"
    /\ UNCHANGED <<orders, pc, req, snap, last, input, result, status_result, issued>>

-----------------------------------------------------------------------------
(* Inputs the requests are drawn from *)

Tea == <<"t", "e", "a">>
Pie == <<"p", "i", "e">>

ValidBodies ==
    {Order(i, Tea, "pending", 1) : i \in 1..MaxId}
        \cup {Order(i, Pie, "shipped", MaxQuantity) : i \in 1..MaxId}

InvalidBodies ==
    {Order(0, Tea, "pending", 1),
     Order(1, <<Space, Space>>, "pending", 1),
     Order(1, Tea, "PENDING", 1),
     Order(1, Tea, "pending", 0),
     Order(1, Tea, "pending", MaxQuantity + 1)}

Bodies == ValidBodies \cup InvalidBodies

Statuses == {"pending", "shipped", "PENDING"}

\* The concurrent specification races requests on few, distinguishable bodies.
RaceBodies ==
    {Order(1, Tea, "pending", 1), Order(1, Pie, "shipped", MaxQuantity),
     Order(MaxId, Tea, "pending", 1), Order(0, Tea, "pending", 1)}

RaceStatuses == {"shipped", "PENDING"}

RaceIds == {1, MaxId}

\* Paths of requests: the registered ones and some that no route matches.
SamplePaths ==
    {<<>>, <<"orders">>, <<"orders", "1">>, <<"orders", "1", "status">>,
     <<"docs">>, <<"nonexistent">>, <<"invalid">>, <<"random", "path">>,
     <<"api", "v1", "orders">>, <<"orders", "1", "invalid">>,
     <<"orders", "1", "status", "x">>}

\* The specification with storage faults draws from two valid bodies, every
\* invalid body and an item one character over the limit.
FaultBodies ==
    {Order(1, Tea, "pending", 1), Order(MaxId, Pie, "shipped", MaxQuantity),
     Order(1, Repeat("x", MaxItemLen + 1), "pending", 1)} \cup InvalidBodies

-----------------------------------------------------------------------------
(* The service *)

Init ==
    /\ orders = {}
    /\ pc = [t \in Tasks |-> "idle"]
    /\ req = [t \in Tasks |-> None]
    /\ snap = [t \in Tasks |-> None]
    /\ last = None
    /\ input = None
    /\ result = None
    /\ status_result = None
    /\ engine = "up"
    /\ issued = [t \in Tasks |-> 0]

\* No request is in flight.
Quiet == \A t \in Tasks : pc[t] = "idle"

\* One client that awaits each response before it sends the next request, as
\* the repository's tests do: every request runs to completion on one task.
Next ==
    \E t \in {1} :
        \/ get_orders(t)
        \/ \E o \in Bodies : add_order(t, o)
        \/ create_order_insert(t)
        \/ \E id \in PathIds : get_order_by_id(t, id)
        \/ \E id \in PathIds, o \in Bodies : update_order_by_id(t, id, o)
        \/ \E id \in PathIds, s \in Statuses : update_order_status(t, id, s)
        \/ update_order_status_get(t)
        \/ \E id \in PathIds : delete_order_by_id(t, id)
        \/ delete_order_delete(t)

Spec == Init /\ [][Next]_vars

\* Requests run concurrently, one per task, interleaved at their await points.
NextConc ==
    \E t \in Tasks :
        \/ get_orders(t)
        \/ \E o \in RaceBodies : add_order(t, o)
        \/ create_order_insert(t)
        \/ \E id \in RaceIds : get_order_by_id(t, id)
        \/ \E id \in RaceIds, o \in RaceBodies : update_order_by_id(t, id, o)
        \/ \E id \in RaceIds, s \in RaceStatuses : update_order_status(t, id, s)
        \/ update_order_status_get(t)
        \/ \E id \in RaceIds : delete_order_by_id(t, id)
        \/ delete_order_delete(t)

SpecConc == Init /\ [][NextConc]_vars

\* One client, as in Next, against a storage engine that may fail at any time.
NextFault ==
    \/ storage_fault
    \/ \E t \in {1} :
          \/ get_orders(t)
          \/ \E o \in FaultBodies : add_order(t, o)
          \/ create_order_insert(t)
          \/ \E id \in PathIds : get_order_by_id(t, id)
          \/ \E id \in PathIds, o \in FaultBodies : update_order_by_id(t, id, o)
          \/ \E id \in PathIds, s \in RaceStatuses : update_order_status(t, id, s)
          \/ update_order_status_get(t)
          \/ \E id \in PathIds : delete_order_by_id(t, id)
          \/ delete_order_delete(t)

SpecFault == Init /\ [][NextFault]_vars

\* The one client of Next, sending requests on unregistered paths as well.
NextRoute ==
    \/ Next
    \/ \E t \in {1}, path \in SamplePaths : path_not_found(t, path)

SpecRoute == Init /\ [][NextRoute]_vars

-----------------------------------------------------------------------------
(* The validator on its own: an order is drawn, validate_order is applied  *)

SampleIds == {0, 1, 70000}

SampleItems ==
    {<<>>, <<Space>>, Repeat(Space, MaxItemLen + 1),
     <<"a">>, <<Space, "a", Space>>, Tea,
     Repeat("a", MaxItemLen), Repeat("a", MaxItemLen + 1),
     <<"a">> \o Repeat(Space, MaxItemLen),
     Repeat(EAcute, MaxItemLen \div 2), Repeat(EAcute, MaxItemLen \div 2 + 1),
     Repeat(EAcute, MaxItemLen)}

SampleStatuses ==
    {"pending", "processing", "shipped", "delivered", "cancelled",
     "PENDING", "Pending", "", "invalid"}

SampleQuantities == {0, 1, 5, MaxQuantity, MaxQuantity + 1, 70000}

SampleOrders ==
    {Order(i, it, st, q) : i \in SampleIds, it \in SampleItems,
                           st \in SampleStatuses, q \in SampleQuantities}

InitValidate ==
    /\ orders = {}
    /\ pc = [t \in Tasks |-> "idle"]
    /\ req = [t \in Tasks |-> None]
    /\ snap = [t \in Tasks |-> None]
    /\ last = None
    /\ input \in {Some(o) : o \in SampleOrders}
    /\ result = None
    /\ status_result = None
    /\ engine = "up"
    /\ issued = [t \in Tasks |-> 0]

Validate ==
    /\ result = None
    /\ result' = Some(validate_order(input[1]))
    /\ UNCHANGED <<orders, pc, req, snap, last, input, status_result, engine, issued>>

\* validate_status on the status of the drawn order
ValidateStatus ==
    /\ status_result = None
    /\ status_result' = Some(validate_status(input[1].status))
    /\ UNCHANGED <<orders, pc, req, snap, last, input, result, engine, issued>>

NextValidate == Validate \/ ValidateStatus

SpecValidate == InitValidate /\ [][NextValidate]_vars

-----------------------------------------------------------------------------
(* Properties of the store and the handlers *)

Stored(id) == Matching(orders, id) # {}

Valid(o) == validate_order(o).ok

\* The request completed last, its Result and its HTTP response.
LastIs(op) == last # None /\ last[1].req.op = op

\* The request task t accepts in this step, if it accepts one: the one it
\* answers at once or the one it is suspended in afterwards.
Accepted(t) ==
    IF pc[t] # "idle" THEN {}
    ELSE IF pc'[t] # "idle" THEN {req'[t][1]}
    ELSE IF last' # None THEN {last'[1].req}
    ELSE {}

HttpNotFound == [status |-> 404, body |-> [error |-> "Order not found"]]

\* C1: in every reachable state, under every interleaving of the requests,
\* the orders table holds at most one order per id.
C1_UniqueId ==
    \A r1 \in orders, r2 \in orders : r1.id = r2.id => r1 = r2

\* Two creates of one id raced and the engine rejected the second INSERT.
C1_Witness ==
    /\ LastIs("add_order")
    /\ last[1].resp.status = 500
    /\ Stored(last[1].req.body[1].id)

DuplicateMessage(id) ==
    CASE id = 1 -> "Order with ID 1 already exists"
      [] id = 2 -> "Order with ID 2 already exists"
      [] id = 3 -> "Order with ID 3 already exists"
      [] id = 4 -> "Order with ID 4 already exists"

C3_CreateGetRoundTrip ==
    [][\A t \in Tasks :
          /\ \A r \in Accepted(t) :
                (/\ r.op = "add_order"
                 /\ add_order(t, r.body[1])
                 /\ Valid(r.body[1])
                 /\ ~Stored(r.body[1].id)) =>
                    pc'[t] = "create_order_insert"
          /\ create_order_insert(t) =>
                LET o == req[t][1].body[1] IN
                /\ last'[1].result = Ok(o)
                /\ last'[1].resp = [status |-> 200, body |-> o]
                /\ Matching(orders', o.id) = {o}
          /\ \A r \in Accepted(t) :
                (/\ r.op = "get_order_by_id"
                 /\ get_order_by_id(t, r.path[1])
                 /\ LastIs("add_order")
                 /\ last[1].result.ok
                 /\ last[1].req.body[1].id = r.path[1]) =>
                    /\ last'[1].result = Ok(last[1].req.body[1])
                    /\ last'[1].resp = [status |-> 200, body |-> last[1].req.body[1]]
      ]_vars

\* A create has succeeded and the table answers a get of its id with the order.
C3_Witness ==
    /\ LastIs("add_order")
    /\ last[1].result.ok
    /\ Quiet
    /\ SelectById(orders, last[1].req.body[1].id) = <<last[1].req.body[1]>>
    /\ Cardinality(orders) > 1

\* C4: for an id that is not stored, GET, PUT with a valid body, PATCH with a
\* valid status and DELETE each fail with NotFound("Order not found"), HTTP
\* 404, and the table is the same after the request as before it.
C4_AbsentIdNotFound ==
    [][\A t \in Tasks : \A r \in Accepted(t) :
          LET Refused ==
                  /\ pc'[t] = "idle"
                  /\ last'[1].result =
                         Err([kind |-> "NotFound", message |-> "Order not found"])
                  /\ last'[1].resp = HttpNotFound
                  /\ orders' = orders
          IN  (r.path # None /\ ~Stored(r.path[1])) =>
                /\ (r.op = "get_order_by_id" /\ get_order_by_id(t, r.path[1]))
                       => Refused
                /\ (/\ r.op = "update_order_by_id"
                    /\ update_order_by_id(t, r.path[1], r.body[1])
                    /\ Valid(r.body[1])) => Refused
                /\ (/\ r.op = "update_order_status"
                    /\ update_order_status(t, r.path[1], r.body[1].status)
                    /\ validate_status(r.body[1].status).ok) => Refused
                /\ (r.op = "delete_order_by_id" /\ delete_order_by_id(t, r.path[1]))
                       => Refused
      ]_vars

\* A full update of an absent id was refused while other orders are stored.
C4_Witness ==
    /\ LastIs("update_order_by_id")
    /\ last[1].resp = HttpNotFound
    /\ ~Stored(last[1].req.path[1])
    /\ orders # {}

C6_DeleteReturnsStored ==
    [][\A t \in Tasks :
          /\ \A r \in Accepted(t) :
                (/\ r.op = "delete_order_by_id"
                 /\ delete_order_by_id(t, r.path[1])
                 /\ Stored(r.path[1])) =>
                    pc'[t] = "delete_order_delete"
          /\ delete_order_delete(t) =>
                LET id == req[t][1].path[1]
                    old == SelectById(orders, id)
                IN  /\ old # None
                    /\ last'[1].result = Ok(old[1])
                    /\ last'[1].resp = [status |-> 200, body |-> old[1]]
                    /\ orders' = orders \ {old[1]}
                    /\ Matching(orders', id) = {}
          /\ \A r \in Accepted(t) :
                (/\ r.op = "get_order_by_id"
                 /\ get_order_by_id(t, r.path[1])
                 /\ LastIs("delete_order_by_id")
                 /\ last[1].result.ok
                 /\ last[1].req.path[1] = r.path[1]) =>
                    /\ last'[1].result =
                           Err([kind |-> "NotFound", message |-> "Order not found"])
                    /\ last'[1].resp = HttpNotFound
      ]_vars

\* A delete has returned the order and the table no longer has its id.
C6_Witness ==
    /\ LastIs("delete_order_by_id")
    /\ last[1].result.ok
    /\ last[1].result.value.id = last[1].req.path[1]
    /\ SelectById(orders, last[1].req.path[1]) = None
    /\ orders # {}

\* C7: a successful update(id, order) replaces item, status and quantity of
\* the stored order id by the body's, keeps its id, returns the body with its
\* id set to the path id, and neither creates nor changes a row with the
\* body's id when that differs from the path id.
C7_FullUpdate ==
    [][\A t \in Tasks : \A r \in Accepted(t) :
          (/\ r.op = "update_order_by_id"
           /\ update_order_by_id(t, r.path[1], r.body[1])
           /\ Valid(r.body[1])
           /\ Stored(r.path[1])) =>
              LET id == r.path[1]
                  o == r.body[1]
                  old == SelectById(orders, id)[1]
                  new == Order(id, o.item, o.status, o.quantity)
              IN  /\ orders' = (orders \ {old}) \cup {new}
                  /\ pc'[t] = "idle"
                  /\ last'[1].result = Ok(new)
                  /\ last'[1].resp = [status |-> 200, body |-> new]
                  /\ o.id # id => Matching(orders', o.id) = Matching(orders, o.id)
      ]_vars

\* A full update succeeded with a body id that differs from the path id and
\* is not stored, and it changed the addressed row.
C7_Witness ==
    /\ LastIs("update_order_by_id")
    /\ last[1].result.ok
    /\ last[1].req.body[1].id # last[1].req.path[1]
    /\ ~Stored(last[1].req.body[1].id)
    /\ last[1].result.value \in orders

-----------------------------------------------------------------------------
(* Properties of the validator.  The rules are stated as the data model    *)
(* states them: lengths are counted in characters.                         *)

\* The length of a string in characters.
CharCount(s) == Len(s)

StatusSet == {"pending", "processing", "shipped", "delivered", "cancelled"}

\* Rule k of the six, in the order of the checks, is violated by order o.
Violates(o, k) ==
    CASE k = 1 -> o.id = 0
      [] k = 2 -> Trim(o.item) = <<>>
      [] k = 3 -> CharCount(o.item) > 100
      [] k = 4 -> o.status \notin StatusSet
      [] k = 5 -> o.quantity = 0
      [] k = 6 -> o.quantity > 1000

Violated(o) == {k \in 1..6 : Violates(o, k)}

\* The error each rule is reported with.
RuleError(k) ==
    CASE k = 1 -> [kind |-> "Validation", field |-> <<"id">>,
                   error |-> "Order ID must be greater than 0"]
      [] k = 2 -> [kind |-> "Validation", field |-> <<"item">>,
                   error |-> "Item name cannot be empty"]
      [] k = 3 -> [kind |-> "Validation", field |-> <<"item">>,
                   error |-> "Item name cannot exceed 100 characters"]
      [] k = 4 -> [kind |-> "Validation", field |-> <<"status">>,
                   error |-> "Status must be one of: pending, processing, shipped, delivered, cancelled"]
      [] k = 5 -> [kind |-> "Validation", field |-> <<"quantity">>,
                   error |-> "Quantity must be greater than 0"]
      [] k = 6 -> [kind |-> "Validation", field |-> <<"quantity">>,
                   error |-> "Quantity cannot exceed 1000"]

Validated == result # None

\* C8: validate_order returns success for every order with id > 0, an item of
\* 1 to 100 characters whose trimmed length is also 1 to 100, a status among
\* the five and a quantity from 1 to 1000, the boundaries 100 and 1000 included.
C8_ValidAccepted ==
    Validated =>
        LET o == input[1] IN
        (/\ o.id > 0
         /\ CharCount(o.item) \in 1..100
         /\ CharCount(Trim(o.item)) \in 1..100
         /\ o.status \in StatusSet
         /\ o.quantity \in 1..1000) => result[1].ok

\* C9: an order that violates exactly one rule is rejected with that rule's
\* field and message.
C9_SingleViolation ==
    Validated =>
        \A k \in 1..6 :
            Violated(input[1]) = {k} => result[1] = Err(RuleError(k))

\* C10: an order that violates several rules at once is rejected with the
\* error of the first violated check in the fixed order, and only that one.
C10_FirstViolation ==
    Validated =>
        \A k \in 1..6 :
            (/\ Cardinality(Violated(input[1])) > 1
             /\ k \in Violated(input[1])
             /\ \A j \in 1..(k - 1) : j \notin Violated(input[1])) =>
                 result[1] = Err(RuleError(k))

\* C11: validate_status(s) succeeds exactly when s is one of the five values
\* by case-sensitive exact match, rejects every other string with field
\* status, and agrees with check 4 of validate_order: for an order whose other
\* fields are valid, validate_order succeeds exactly when validate_status of
\* its status does.
C11_StatusAgreement ==
    (Validated /\ status_result # None) =>
        LET o == input[1]
            vs == status_result[1]
        IN  /\ vs.ok <=> o.status \in StatusSet
            /\ ~vs.ok => vs.value = RuleError(4)
            /\ Violated(o) \subseteq {4} => (result[1].ok <=> vs.ok)

-----------------------------------------------------------------------------
(* Properties of the error taxonomy, the handlers and the statements *)

C13_RejectedBeforeStore ==
    [][\A t \in Tasks : \A r \in Accepted(t) :
          LET Rejected ==
                  /\ pc'[t] = "idle"
                  /\ last'[1].req = r
                  /\ last'[1].resp.status = 400
                  /\ last'[1].statements = 0
                  /\ orders' = orders
          IN  /\ (/\ r.op = "add_order"
                  /\ add_order(t, r.body[1])
                  /\ ~Valid(r.body[1])) => Rejected
              /\ (/\ r.op = "update_order_by_id"
                  /\ update_order_by_id(t, r.path[1], r.body[1])
                  /\ ~Valid(r.body[1])) => Rejected
              /\ (/\ r.op = "update_order_status"
                  /\ update_order_status(t, r.path[1], r.body[1].status)
                  /\ ~validate_status(r.body[1].status).ok) => Rejected
      ]_vars

\* A full update of a stored order was rejected by the validator.
C13_Witness ==
    /\ LastIs("update_order_by_id")
    /\ last[1].resp.status = 400
    /\ last[1].statements = 0
    /\ Stored(last[1].req.path[1])

\* C14: list() returns exactly the stored orders, each once: the empty
\* sequence when none is stored, else a sequence as long as the number of
\* stored ids whose elements are the stored rows.
C14_ListIsTable ==
    [][\A t \in Tasks : \A r \in Accepted(t) :
          (r.op = "get_orders" /\ get_orders(t)) =>
              LET list == last'[1].result.value IN
              /\ last'[1].result.ok
              /\ last'[1].resp = [status |-> 200, body |-> list]
              /\ Len(list) = Cardinality({row.id : row \in orders})
              /\ {list[i] : i \in 1..Len(list)} = orders
              /\ \A i, j \in 1..Len(list) : list[i] = list[j] => i = j
              /\ orders = {} => list = <<>>
              /\ orders' = orders
      ]_vars

\* A list returned all the stored orders, more than one.
C14_Witness ==
    /\ LastIs("get_orders")
    /\ last[1].result.ok
    /\ Len(last[1].result.value) = Cardinality(orders)
    /\ Cardinality(orders) > 1

\* C15: while the storage engine raises no query or connection failure, no
\* request is answered with ServerError, HTTP 500, under any interleaving,
\* two concurrent creates of one id included.
C15_NoServerError ==
    (last # None /\ engine = "up") => last[1].resp.status # 500

\* C16: when deletes of one stored id interleave so that both have read the
\* order before a DELETE runs, the DELETE that finds the row returns the order
\* and removes it, the other finds no row and returns NotFound, never a
\* ServerError; a delete succeeds only by removing a stored row, so no two
\* deletes of one stored order both succeed.
C16_DeleteRace ==
    [][\A t \in Tasks :
          delete_order_delete(t) =>
              LET id == req[t][1].path[1] IN
              /\ last'[1].resp.status \in {200, 404}
              /\ IF Stored(id)
                 THEN /\ last'[1].result = Ok(snap[t][1])
                      /\ Matching(orders', id) = {}
                 ELSE /\ last'[1].result =
                             Err([kind |-> "NotFound", message |-> "Order not found"])
                      /\ orders' = orders
              /\ (/\ LastIs("delete_order_by_id")
                  /\ last[1].result.ok
                  /\ last[1].req.path[1] = id) => last'[1].resp = HttpNotFound
              /\ \A u \in Tasks \ {t} :
                    (pc[u] = "delete_order_delete" /\ req[u][1].path[1] = id) =>
                        (pc'[u] = "delete_order_delete" /\ Matching(orders', id) = {})
      ]_vars

\* A delete read the order, lost the race and its DELETE affected no row.
C16_Witness ==
    /\ LastIs("delete_order_by_id")
    /\ last[1].resp = HttpNotFound
    /\ last[1].statements = 2

\* The most statements a request of each kind issues.
StatementLimit(op) ==
    CASE op = "get_orders" -> 1
      [] op = "get_order_by_id" -> 1
      [] op = "update_order_by_id" -> 1
      [] op = "add_order" -> 2
      [] op = "update_order_status" -> 2
      [] op = "delete_order_by_id" -> 2

\* Task t accepts request r in this step.
Accepts(t, r) ==
    CASE r.op = "get_orders" -> get_orders(t)
      [] r.op = "add_order" -> add_order(t, r.body[1])
      [] r.op = "get_order_by_id" -> get_order_by_id(t, r.path[1])
      [] r.op = "update_order_by_id" -> update_order_by_id(t, r.path[1], r.body[1])
      [] r.op = "update_order_status" ->
            update_order_status(t, r.path[1], r.body[1].status)
      [] r.op = "delete_order_by_id" -> delete_order_by_id(t, r.path[1])

\* Task t resumes the request it is suspended in.
Resumes(t) ==
    \/ create_order_insert(t)
    \/ update_order_status_get(t)
    \/ delete_order_delete(t)

\* C17: nothing is retried and a request ends with one response: list, get
\* and update issue at most one store statement, create, update_status and
\* delete at most two, and a failing statement ends the request with its
\* error at once.
C17_NoRetry ==
    [][\A t \in Tasks :
          /\ \A r \in Accepted(t) :
                Accepts(t, r) =>
                    IF pc'[t] = "idle"
                    THEN /\ last'[1].req = r
                         /\ last'[1].statements <= 1
                         /\ (engine = "down" /\ last'[1].statements = 1) =>
                                (last'[1].resp.status = 500 /\ orders' = orders)
                    ELSE /\ engine = "up"
                         /\ StatementLimit(r.op) = 2
                         /\ issued'[t] = 1
          /\ Resumes(t) =>
                /\ pc'[t] = "idle"
                /\ last'[1].req = req[t][1]
                /\ last'[1].statements = 2
                /\ last'[1].statements <= StatementLimit(req[t][1].op)
                /\ engine = "down" =>
                       (last'[1].resp.status = 500 /\ orders' = orders)
          /\ last' # None => last'[1].statements <= StatementLimit(last'[1].req.op)
      ]_vars

\* The second statement of a request failed and ended it with its error.
C17_Witness ==
    /\ last # None
    /\ last[1].statements = 2
    /\ last[1].resp.status = 500
    /\ last[1].req.op = "update_order_status"

\* C18: every stored order satisfies the rules of the data model: id > 0,
\* item not empty after trimming and at most 100 long, status one of the
\* five values, quantity from 1 to 1000.
C18_StoredAreValid ==
    \A row \in orders :
        /\ row.id > 0
        /\ Trim(row.item) # <<>>
        /\ CharCount(row.item) <= 100
        /\ row.status \in StatusSet
        /\ row.quantity \in 1..1000

\* Orders are stored, one of them as an update left it, and a full update
\* with an item over the limit has just been refused.
C18_Witness ==
    /\ last # None
    /\ last[1].resp.status = 400
    /\ last[1].statements = 0
    /\ last[1].req.op = "update_order_by_id"
    /\ CharCount(last[1].req.body[1].item) > MaxItemLen
    /\ Cardinality(orders) > 1
    /\ \E row \in orders : row \notin FaultBodies

C20_DocumentedStatuses ==
    LastIs("add_order") =>
        /\ last[1].result.ok => last[1].resp.status = 201
        /\ (/\ ~last[1].result.ok
            /\ last[1].result.value = AlreadyExists(last[1].req.body[1].id))
               => last[1].resp.status = 409

\* C21: a request whose path matches no registered route, /nonexistent,
\* /api/v1/orders and /orders/1/invalid among them, is answered 404 with the
\* body {error: "Path not found", message: "The requested endpoint does not
\* exist"} and leaves the store alone.
C21_Fallback ==
    [][/\ \A path \in {<<"nonexistent">>, <<"api", "v1", "orders">>,
                       <<"orders", "1", "invalid">>} : MatchRoute(path) = None
       /\ \A t \in Tasks : \A path \in SamplePaths :
             path_not_found(t, path) =>
                 /\ MatchRoute(path) = None
                 /\ last'[1].req.uri = path
                 /\ last'[1].resp.status = 404
                 /\ last'[1].resp.body =
                        [error |-> "Path not found",
                         message |-> "The requested endpoint does not exist"]
                 /\ last'[1].statements = 0
                 /\ orders' = orders
      ]_vars

\* /orders/1/invalid was answered by the fallback while order 1 is stored.
C21_Witness ==
    /\ LastIs("path_not_found")
    /\ last[1].req.uri = <<"orders", "1", "invalid">>
    /\ last[1].resp = PathNotFound
    /\ Stored(1)

\* C22: there is no soft delete: when a delete succeeds its id is stored no
\* more, a get of an id that is not stored returns NotFound, only a
\* successful create brings an id back, and a create of a valid order with
\* an id that is not stored succeeds and stores the fields of its own body.
C22_NoSoftDelete ==
    [][\A t \in Tasks :
          /\ (delete_order_delete(t) /\ last'[1].result.ok) =>
                 Matching(orders', req[t][1].path[1]) = {}
          /\ \A r \in Accepted(t) :
                /\ (/\ r.op = "get_order_by_id"
                    /\ get_order_by_id(t, r.path[1])
                    /\ ~Stored(r.path[1])) => last'[1].resp = HttpNotFound
                /\ (/\ r.op = "add_order"
                    /\ add_order(t, r.body[1])
                    /\ Valid(r.body[1])
                    /\ ~Stored(r.body[1].id)) =>
                        (pc'[t] = "create_order_insert" /\ orders' = orders)
          /\ create_order_insert(t) =>
                 /\ last'[1].result = Ok(req[t][1].body[1])
                 /\ Matching(orders', req[t][1].body[1].id) = {req[t][1].body[1]}
          /\ \A id \in PathIds :
                (Matching(orders, id) = {} /\ Matching(orders', id) # {}) =>
                    \E u \in Tasks :
                        /\ pc[u] = "create_order_insert"
                        /\ req[u][1].body[1].id = id
                        /\ create_order_insert(u)
      ]_vars

\* An order was deleted and a create of its id with other fields has passed
\* the existence check.
C22_Witness ==
    /\ LastIs("delete_order_by_id")
    /\ last[1].result.ok
    /\ pc[1] = "create_order_insert"
    /\ req[1][1].body[1].id = last[1].req.path[1]
    /\ req[1][1].body[1] # last[1].result.value
    /\ ~Stored(last[1].req.path[1])

\* C23: in every interleaving a PATCH /orders/{id}/status that succeeds
\* returns an order whose status is the status it requested.
C23_PatchReturnsRequested ==
    (LastIs("update_order_status") /\ last[1].result.ok) =>
        last[1].result.value.status = last[1].req.body[1].status

\* C24: in every interleaving the order a successful delete returns is the
\* row as it was stored when the DELETE statement removed it.
C24_DeleteReturnsRemoved ==
    [][\A t \in Tasks :
          (delete_order_delete(t) /\ last'[1].result.ok) =>
              /\ last'[1].result.value \in orders
              /\ orders' = orders \ {last'[1].result.value}
      ]_vars

\* C25: of concurrent creates of one id at most one succeeds: a create's
\* INSERT succeeds only when the id is not stored and then stores exactly its
\* body, after which the other creates of that id fail; a failed create
\* leaves the table as it was.
C25_OneCreateWins ==
    [][\A t \in Tasks :
          create_order_insert(t) =>
              LET o == req[t][1].body[1] IN
              /\ IF Stored(o.id)
                 THEN ~last'[1].result.ok /\ orders' = orders
                 ELSE /\ last'[1].result = Ok(o)
                      /\ orders' = orders \cup {o}
                      /\ Matching(orders', o.id) = {o}
              /\ \A u \in Tasks \ {t} :
                    (pc[u] = "create_order_insert" /\ req[u][1].body[1].id = o.id) =>
                        /\ pc'[u] = "create_order_insert"
                        /\ Matching(orders', o.id) # {}
      ]_vars

\* A create lost the race on its INSERT and the row has the winner's fields.
C25_Witness ==
    /\ LastIs("add_order")
    /\ ~last[1].result.ok
    /\ last[1].statements = 2
    /\ Stored(last[1].req.body[1].id)
    /\ last[1].req.body[1] \notin orders

\* C26: concurrent PUT and PATCH-status requests on one id write whole
\* statements one after another: a successful PUT sets item, status and
\* quantity of the row from its one body, a PATCH changes the status of
\* the row as it then is and nothing else, and the re-read writes nothing.
C26_WholeWrites ==
    [][\A t \in Tasks :
          /\ \A r \in Accepted(t) :
                /\ (/\ r.op = "update_order_by_id"
                    /\ update_order_by_id(t, r.path[1], r.body[1])
                    /\ last'[1].result.ok) =>
                        /\ Matching(orders', r.path[1]) =
                               {Order(r.path[1], r.body[1].item, r.body[1].status,
                                      r.body[1].quantity)}
                        /\ orders' \ Matching(orders', r.path[1]) =
                               orders \ Matching(orders, r.path[1])
                /\ (/\ r.op = "update_order_status"
                    /\ update_order_status(t, r.path[1], r.body[1].status)
                    /\ pc'[t] = "update_order_status_get") =>
                        /\ \E row \in Matching(orders, r.path[1]) :
                               Matching(orders', r.path[1]) =
                                   {[row EXCEPT !.status = r.body[1].status]}
                        /\ orders' \ Matching(orders', r.path[1]) =
                               orders \ Matching(orders, r.path[1])
          /\ update_order_status_get(t) => orders' = orders
      ]_vars

\* A PUT wrote the row after a PATCH of the same id that has yet to re-read:
\* the row has the three fields of the PUT's body, not the PATCH's status.
C26_Witness ==
    /\ LastIs("update_order_by_id")
    /\ last[1].result.ok
    /\ last[1].result.value \in orders
    /\ \E u \in Tasks :
          /\ pc[u] = "update_order_status_get"
          /\ req[u][1].path[1] = last[1].req.path[1]
          /\ req[u][1].body[1].status # last[1].req.body[1].status

\* C27: validation comes before existence: a PUT with an invalid body and a
\* PATCH with an invalid status are answered with the validator's error, 400,
\* whether the id is stored or not, and a PUT or PATCH answered NotFound has
\* passed validation.
C27_ValidationFirst ==
    [][\A t \in Tasks : \A r \in Accepted(t) :
          /\ (/\ r.op = "update_order_by_id"
              /\ update_order_by_id(t, r.path[1], r.body[1])) =>
                  /\ ~Valid(r.body[1]) =>
                        /\ last'[1].result = Err(validate_order(r.body[1]).value)
                        /\ last'[1].result.value.kind = "Validation"
                        /\ last'[1].resp.status = 400
                  /\ last'[1].resp = HttpNotFound =>
                        (Valid(r.body[1]) /\ ~Stored(r.path[1]))
          /\ (/\ r.op = "update_order_status"
              /\ update_order_status(t, r.path[1], r.body[1].status)) =>
                  /\ ~validate_status(r.body[1].status).ok =>
                        /\ pc'[t] = "idle"
                        /\ last'[1].result =
                               Err(validate_status(r.body[1].status).value)
                        /\ last'[1].result.value.kind = "Validation"
                        /\ last'[1].resp.status = 400
                  /\ (pc'[t] = "idle" /\ last'[1].resp = HttpNotFound) =>
                        (validate_status(r.body[1].status).ok /\ ~Stored(r.path[1]))
      ]_vars

\* A PATCH with an invalid status on an id that is not stored got 400.
C27_Witness ==
    /\ LastIs("update_order_status")
    /\ last[1].resp.status = 400
    /\ ~Stored(last[1].req.path[1])
    /\ orders # {}

\* C28 as stated: a PUT on a stored path id whose body has a valid item,
\* status and quantity succeeds and updates the row for every value of the
\* body's id.
C28_AnyBodyId ==
    [][\A t \in Tasks : \A r \in Accepted(t) :
          (/\ r.op = "update_order_by_id"
           /\ update_order_by_id(t, r.path[1], r.body[1])
           /\ Stored(r.path[1])
           /\ Valid([r.body[1] EXCEPT !.id = 1])) =>
              /\ last'[1].result = Ok([r.body[1] EXCEPT !.id = r.path[1]])
              /\ Matching(orders', r.path[1]) =
                     {Order(r.path[1], r.body[1].item, r.body[1].status,
                            r.body[1].quantity)}
      ]_vars

\* C28, amended: a PUT on a stored path id whose body has a valid item,
\* status and quantity succeeds and updates the row for every body id
\* greater than 0, equal to the path id or not; with body id 0 it is refused
\* with the Validation error of field id and the row stays as it was.
C28_PositiveBodyId ==
    [][\A t \in Tasks : \A r \in Accepted(t) :
          (/\ r.op = "update_order_by_id"
           /\ update_order_by_id(t, r.path[1], r.body[1])
           /\ Stored(r.path[1])
           /\ Valid([r.body[1] EXCEPT !.id = 1])) =>
              IF r.body[1].id > 0
              THEN /\ last'[1].result = Ok([r.body[1] EXCEPT !.id = r.path[1]])
                   /\ Matching(orders', r.path[1]) =
                          {Order(r.path[1], r.body[1].item, r.body[1].status,
                                 r.body[1].quantity)}
              ELSE /\ last'[1].result =
                          Err(ValidationError("Order ID must be greater than 0",
                                              Some("id")))
                   /\ last'[1].resp.status = 400
                   /\ orders' = orders
      ]_vars

\* A PUT succeeded with a body id that is the id of another stored order:
\* the row of the path id has the body's fields, the other row is still there.
C28_Witness ==
    /\ LastIs("update_order_by_id")
    /\ last[1].result.ok
    /\ last[1].req.body[1].id # last[1].req.path[1]
    /\ Stored(last[1].req.body[1].id)
    /\ last[1].result.value.id = last[1].req.path[1]
    /\ last[1].result.value \in orders

\* The id a request addresses: the body's id for a create, else the path id.
Addressed(r) == IF r.op = "add_order" THEN r.body[1].id ELSE r.path[1]

\* Every row of an id other than k is the same before and after the step.
OthersUnchanged(k) ==
    {row \in orders' : row.id # k} = {row \in orders : row.id # k}

\* C29: every request changes at most the row of the id it addresses: each
\* statement of a create, update, update_status or delete on id k leaves the
\* rows of all other ids as they were, whether it succeeds or fails, and
\* GET /orders and GET /orders/{id} change no row.
C29_Frame ==
    [][\A t \in Tasks :
          /\ \A r \in Accepted(t) :
                Accepts(t, r) =>
                    IF r.op \in {"get_orders", "get_order_by_id"}
                    THEN orders' = orders
                    ELSE OthersUnchanged(Addressed(r))
          /\ (pc[t] # "idle" /\ Resumes(t)) => OthersUnchanged(Addressed(req[t][1]))
      ]_vars

\* A PUT has written one row while a row of another id is stored.
C29_Witness ==
    /\ LastIs("update_order_by_id")
    /\ last[1].result.ok
    /\ last[1].result.value \in orders
    /\ \E row \in orders :
          /\ row.id # last[1].req.path[1]
          /\ row.item # last[1].req.body[1].item

\* C30: a successful PUT sent again right after itself gets the same
\* response and leaves the table as it is; so does a PATCH with the same
\* status; a DELETE sent again right after it succeeded gets NotFound.
C30_Idempotent ==
    [][\A t \in Tasks :
          /\ \A r \in Accepted(t) :
                (/\ last # None
                 /\ last[1].req.op = r.op
                 /\ last[1].req = r
                 /\ last[1].result.ok) =>
                    /\ (/\ r.op = "update_order_by_id"
                        /\ update_order_by_id(t, r.path[1], r.body[1])) =>
                            /\ last'[1].result = last[1].result
                            /\ last'[1].resp = last[1].resp
                            /\ orders' = orders
                    /\ (/\ r.op = "update_order_status"
                        /\ update_order_status(t, r.path[1], r.body[1].status)) =>
                            /\ pc'[t] = "update_order_status_get"
                            /\ orders' = orders
                    /\ (/\ r.op = "delete_order_by_id"
                        /\ delete_order_by_id(t, r.path[1])) =>
                            /\ pc'[t] = "idle"
                            /\ last'[1].resp = HttpNotFound
                            /\ orders' = orders
          /\ (/\ update_order_status_get(t)
              /\ last # None
              /\ last[1].req.op = "update_order_status"
              /\ last[1].req = req[t][1]
              /\ last[1].result.ok) =>
                  /\ last'[1].result = last[1].result
                  /\ last'[1].resp = last[1].resp
                  /\ orders' = orders
      ]_vars

\* A PATCH succeeded and the same PATCH, sent again, has run its UPDATE.
C30_Witness ==
    /\ LastIs("update_order_status")
    /\ last[1].result.ok
    /\ pc[1] = "update_order_status_get"
    /\ req[1][1] = last[1].req

====
